---- MODULE Spec2Model ----
(***************************************************************************)
(* LABColor (src/canvastools/ts/CanvasTools/Core/Colors/LABColor.ts).      *)
(*                                                                         *)
(* A LABColor holds a private array `values` = [l, a, b] of TypeScript     *)
(* `number`s.  The model keeps the arrays in a heap, so that the copy made *)
(* by toArray() and writes into returned arrays are visible, and computes  *)
(* every numeric method step by step as the source does.                   *)
(*                                                                         *)
(* `number` (an IEEE-754 double) is modelled as a decimal fixed-point      *)
(* number: an integer count of units of 1/Scale, every operation rounded   *)
(* to the nearest unit (ties away from zero), with a largest finite        *)
(* magnitude MaxNum beyond which a result overflows to +/-Infinity, and    *)
(* with NaN.  The three special values are integers outside the finite     *)
(* range.  Round-off, overflow, underflow to zero, Infinity - Infinity and *)
(* comparisons with NaN therefore all occur in the model as they do for    *)
(* doubles, at a coarser resolution.                                       *)
(***************************************************************************)
EXTENDS Integers, Sequences, FiniteSets, TLC

\* Units per 1.0: the resolution of the modelled `number` (six decimals).
Scale == 1000000

\* Largest finite magnitude of the modelled `number`, in whole units of 1.0.
MaxMagnitude == 1000

MaxNum == MaxMagnitude * Scale
PosInf == MaxNum + 1
NegInf == 0 - (MaxNum + 1)
NaN == MaxNum + 2

IsNaN(x) == x = NaN
IsFinite(x) == x >= 0 - MaxNum /\ x <= MaxNum
Abs(x) == IF x < 0 THEN 0 - x ELSE x
Sign(x) == IF x < 0 THEN 0 - 1 ELSE IF x > 0 THEN 1 ELSE 0

\* A finite exact result brought into the range of `number`.
Overflow(x) == IF x > MaxNum THEN PosInf ELSE IF x < 0 - MaxNum THEN NegInf ELSE x

\* n / d for integers n, d > 0, rounded to the nearest integer.
RoundDiv(n, d) == IF n >= 0 THEN (2 * n + d) \div (2 * d) ELSE 0 - ((2 * (0 - n) + d) \div (2 * d))

\* -x
Neg(x) == IF IsNaN(x) THEN NaN ELSE 0 - x

\* x + y
Add(x, y) ==
    IF IsNaN(x) \/ IsNaN(y) THEN NaN
    ELSE IF IsFinite(x) /\ IsFinite(y) THEN Overflow(x + y)
    ELSE IF IsFinite(x) THEN y
    ELSE IF IsFinite(y) THEN x
    ELSE IF x = y THEN x
    ELSE NaN

\* x - y
Sub(x, y) == Add(x, Neg(y))

\* x * y for finite x, y >= 0: the exact product is
\* xh*yh*Scale + (xh*yl + xl*yh)*Base + xl*yl with Base = 1000 = sqrt(Scale),
\* divided by Scale and rounded.
MulMag(x, y) ==
    LET xh == x \div 1000
        xl == x % 1000
        yh == y \div 1000
        yl == y % 1000
    IN  IF xh > 0 /\ yh > (MaxNum + 1) \div xh THEN PosInf
        ELSE LET c1 == xh * yl
                 c2 == xl * yh
                 whole == xh * yh + c1 \div 1000 + c2 \div 1000
                 frac == ((c1 % 1000) + (c2 % 1000)) * 1000 + xl * yl
             IN  Overflow(whole + RoundDiv(frac, Scale))

\* x * y
Mul(x, y) ==
    IF IsNaN(x) \/ IsNaN(y) THEN NaN
    ELSE IF IsFinite(x) /\ IsFinite(y)
         THEN LET m == MulMag(Abs(x), Abs(y))
              IN  IF Sign(x) * Sign(y) < 0 THEN 0 - m ELSE m
    ELSE IF x = 0 \/ y = 0 THEN NaN
    ELSE IF Sign(x) * Sign(y) < 0 THEN NegInf ELSE PosInf

\* Long division: q so far, remainder r < y, n decimal digits still to produce.
RECURSIVE DivDigits(_, _, _, _)
DivDigits(q, r, y, n) ==
    IF n = 0 THEN (IF 2 * r >= y THEN q + 1 ELSE q)
    ELSE DivDigits(q * 10 + (r * 10) \div y, (r * 10) % y, y, n - 1)

\* x / y for finite x >= 0, y > 0.
DivMag(x, y) ==
    IF x \div y > MaxMagnitude THEN PosInf
    ELSE Overflow(DivDigits(x \div y, x % y, y, 6))

\* x / y
Div(x, y) ==
    IF IsNaN(x) \/ IsNaN(y) THEN NaN
    ELSE IF IsFinite(x) /\ IsFinite(y)
         THEN IF y = 0
              THEN (IF x = 0 THEN NaN ELSE IF x > 0 THEN PosInf ELSE NegInf)
              ELSE LET m == DivMag(Abs(x), Abs(y))
                   IN  IF Sign(x) * Sign(y) < 0 THEN 0 - m ELSE m
    ELSE IF IsFinite(x) THEN 0
    ELSE IF IsFinite(y) THEN (IF Sign(x) * (IF y < 0 THEN 0 - 1 ELSE 1) < 0 THEN NegInf ELSE PosInf)
    ELSE NaN

\* x < y (false when either is NaN)
Lt(x, y) == ~IsNaN(x) /\ ~IsNaN(y) /\ x < y

\* x > y (false when either is NaN)
Gt(x, y) == ~IsNaN(x) /\ ~IsNaN(y) /\ x > y

\* Digit-by-digit square root: root r and remainder rem so far, the number's
\* remaining base-100 digits ds, then n further zero pairs.
RECURSIVE SqrtDigits(_, _, _, _)
SqrtDigits(r, rem, ds, n) ==
    IF ds = <<>> /\ n = 0 THEN (IF rem > r THEN r + 1 ELSE r)
    ELSE LET cur == rem * 100 + (IF ds = <<>> THEN 0 ELSE Head(ds))
             d == CHOOSE k \in 0..9 :
                      /\ (20 * r + k) * k <= cur
                      /\ (k = 9 \/ (20 * r + k + 1) * (k + 1) > cur)
         IN  SqrtDigits(10 * r + d, cur - (20 * r + d) * d,
                        IF ds = <<>> THEN <<>> ELSE Tail(ds),
                        IF ds = <<>> THEN n - 1 ELSE n)

\* The base-100 digits of x >= 0, most significant first.
RECURSIVE Pairs(_)
Pairs(x) == IF x = 0 THEN <<>> ELSE Append(Pairs(x \div 100), x % 100)

\* Math.sqrt(x)
Sqrt(x) ==
    IF IsNaN(x) \/ x < 0 THEN NaN
    ELSE IF x = PosInf THEN PosInf
    ELSE SqrtDigits(0, 0, Pairs(x), 3)

(***************************************************************************)
(* The objects.                                                            *)
(***************************************************************************)

\* The two LABColor objects the caller holds.
Colors == {"X", "Y"}

\* Largest number of arrays the caller obtains from toArray().
MaxArrays == 2

VARIABLES
    heap,       \* the arrays: heap[r] is the array with reference r
    values,     \* values[c]: the reference held by the private field c.values
    args,       \* args[c]: the <<l, a, b>> the constructor of c was called with
    returned,   \* the references toArray() has handed to the caller
    ret         \* the last call and what it returned

vars == <<heap, values, args, returned, ret>>

\* constructor(l, a, b): this.values = [l, a, b]
Construct(xl, xa, xb, yl, ya, yb) ==
    /\ heap = << <<xl, xa, xb>>, <<yl, ya, yb>> >>
    /\ values = [c \in Colors |-> IF c = "X" THEN 1 ELSE 2]
    /\ args = [c \in Colors |-> IF c = "X" THEN <<xl, xa, xb>> ELSE <<yl, ya, yb>>]
    /\ returned = {}
    /\ ret = [op |-> "none"]

\* this.values[i] (i counted from 0 as in the source)
At(this, i) == heap[values[this]][i + 1]

\* get l()
l(this) == At(this, 0)

\* get a()
a(this) == At(this, 1)

\* get b()
b(this) == At(this, 2)

(***************************************************************************)
(* distanceTo                                                              *)
(***************************************************************************)

\* 0.045 and 0.015, the CIE94 weights of the chroma in sc and sh
K1 == 45000
K2 == 15000

\* delta with the argument's component taken one index too far
delta_WrongIndex(this, color, i) == Sub(At(this, i), At(color, (i + 1) % 3))

\* this.values[i] - color.values[i]: deltaL (i = 0), deltaA (i = 1), deltaB (i = 2)
delta(this, color, i) == Sub(At(this, i), At(color, i))

\* Math.sqrt(c.values[1] * c.values[1] + c.values[2] * c.values[2]): c1 and c2
chroma(c) == Sqrt(Add(Mul(At(c, 1), At(c, 1)), Mul(At(c, 2), At(c, 2))))

\* hueRadicand with deltaC not squared
hueRadicand_NotSquared(deltaA, deltaB, deltaC) ==
    Sub(Add(Mul(deltaA, deltaA), Mul(deltaB, deltaB)), deltaC)

\* deltaA * deltaA + deltaB * deltaB - deltaC * deltaC
hueRadicand(deltaA, deltaB, deltaC) ==
    Sub(Add(Mul(deltaA, deltaA), Mul(deltaB, deltaB)), Mul(deltaC, deltaC))

\* clampSqrt without the clamp
clampSqrt_NoClamp(v) == Sqrt(v)

\* clampSqrt clamping everything below one unit
clampSqrt_Coarse(v) == IF Lt(v, Scale) THEN 0 ELSE Sqrt(v)

\* v < 0 ? 0 : Math.sqrt(v)
clampSqrt(v) == IF Lt(v, 0) THEN 0 ELSE Sqrt(v)

\* scaleFactor with the sign of the chroma term flipped
scaleFactor_Minus(k, c1) == Sub(Scale, Mul(k, c1))

\* 1.0 + k * c1: sc (k = 0.045) and sh (k = 0.015)
scaleFactor(k, c1) == Add(Scale, Mul(k, c1))

\* The locals of distanceTo, in the order the source assigns them; deltaH0 is
\* deltaH as first assigned (the radicand), deltaH its value after the clamp.
distanceToLocals(this, color) ==
    LET deltaL == delta(this, color, 0)
        deltaA == delta(this, color, 1)
        deltaB == delta(this, color, 2)
        c1 == chroma(this)
        c2 == chroma(color)
        deltaC == Sub(c1, c2)
        deltaH0 == hueRadicand(deltaA, deltaB, deltaC)
        deltaH == clampSqrt(deltaH0)
        sc == scaleFactor(K1, c1)
        sh == scaleFactor(K2, c1)
        deltaLKlsl == Div(deltaL, Scale)
        deltaCkcsc == Div(deltaC, sc)
        deltaHkhsh == Div(deltaH, sh)
        i == Add(Add(Mul(deltaLKlsl, deltaLKlsl), Mul(deltaCkcsc, deltaCkcsc)),
                 Mul(deltaHkhsh, deltaHkhsh))
    IN  [c1 |-> c1, c2 |-> c2, deltaC |-> deltaC, deltaH0 |-> deltaH0,
         sc |-> sc, sh |-> sh, i |-> i]

\* return i < 0 ? 0 : Math.sqrt(i)
distanceTo(this, color) == clampSqrt(distanceToLocals(this, color).i)

(***************************************************************************)
(* distanceToGray, toArray                                                 *)
(***************************************************************************)

\* distanceToGray reading l in place of a
distanceToGray_UsesL(this) == Sqrt(Add(Mul(l(this), l(this)), Mul(b(this), b(this))))

distanceToGray(this) == Sqrt(Add(Mul(a(this), a(this)), Mul(b(this), b(this))))

\* toArray handing out the private array itself
toArray_Alias(this) == [heap |-> heap, ref |-> values[this]]

\* this.values.map((v) => v): a new array with the same elements.  The result
\* is the heap with the new array, and the reference returned.
toArray(this) ==
    [heap |-> Append(heap, [i \in 1..Len(heap[values[this]]) |-> heap[values[this]][i]]),
     ref |-> Len(heap) + 1]

(***************************************************************************)
(* toXYZ, toRGB, toSRGB                                                    *)
(***************************************************************************)

\* 0.008856451: a value of whole units exceeds it iff it exceeds 8856 units
Threshold == 8856
\* 7.787037
Slope == 7787037

\* XYZColor.D65 (x, y, z)
D65x == 950470
D65y == 1000000
D65z == 1088830

\* mapXYZ without the linear branch
mapXYZ_AlwaysCube(v) ==
    LET v2 == Mul(v, v)
        v3 == Mul(v2, v)
    IN  v3

\* The callback of map: v3 = v * v * v; (v3 > 0.008856451) ? v3 : (v - 16 / 116) / 7.787037
mapXYZ(v) ==
    LET v2 == Mul(v, v)
        v3 == Mul(v2, v)
    IN  IF Gt(v3, Threshold) THEN v3
        ELSE Div(Sub(v, Div(16 * Scale, 116 * Scale)), Slope)

\* toXYZLocals with z = y + this.b / 2
toXYZLocals_PlusB(this) ==
    LET y == Div(Add(Mul(l(this), 100 * Scale), 16 * Scale), 116 * Scale)
        x == Add(Div(a(this), 5 * Scale), y)
        z == Add(y, Div(b(this), 2 * Scale))
    IN  [fx |-> x, fy |-> y, fz |-> z, rx |-> mapXYZ(x), ry |-> mapXYZ(y), rz |-> mapXYZ(z)]

\* The locals of toXYZ: x, y, z as first assigned (f) and after the map (r).
toXYZLocals(this) ==
    LET y == Div(Add(Mul(l(this), 100 * Scale), 16 * Scale), 116 * Scale)
        x == Add(Div(a(this), 5 * Scale), y)
        z == Sub(y, Div(b(this), 2 * Scale))
    IN  [fx |-> x, fy |-> y, fz |-> z, rx |-> mapXYZ(x), ry |-> mapXYZ(y), rz |-> mapXYZ(z)]

\* toXYZ scaling x by D65.y
toXYZ_WrongWhite(this) ==
    LET t == toXYZLocals(this)
    IN  [x |-> Mul(t.rx, D65y), y |-> Mul(t.ry, D65y), z |-> Mul(t.rz, D65z)]

\* new XYZColor(x * XYZColor.D65.x, y * XYZColor.D65.y, z * XYZColor.D65.z)
toXYZ(this) ==
    LET t == toXYZLocals(this)
    IN  [x |-> Mul(t.rx, D65x), y |-> Mul(t.ry, D65y), z |-> Mul(t.rz, D65z)]

\* XYZColor.toRGB() and RGBColor.toSRGB(): other classes; only the call is modelled.
XYZtoRGB(xyz) == [rgbOf |-> xyz]
RGBtoSRGB(rgb) == [srgbOf |-> rgb]

toRGB(this) == XYZtoRGB(toXYZ(this))
toSRGB(this) == RGBtoSRGB(XYZtoRGB(toXYZ(this)))

(***************************************************************************)
(* The calls.                                                              *)
(***************************************************************************)

Return(op, this, arg, val) == ret' = [op |-> op, this |-> this, arg |-> arg, val |-> val]

CallDistanceTo(this, color) ==
    /\ Return("distanceTo", this, color, distanceTo(this, color))
    /\ UNCHANGED <<heap, values, args, returned>>

CallDistanceToGray(this) ==
    /\ Return("distanceToGray", this, this, distanceToGray(this))
    /\ UNCHANGED <<heap, values, args, returned>>

CallToArray(this) ==
    /\ Cardinality(returned) < MaxArrays
    /\ heap' = toArray(this).heap
    /\ returned' = returned \cup {toArray(this).ref}
    /\ Return("toArray", this, this, toArray(this).ref)
    /\ UNCHANGED <<values, args>>

CallToXYZ(this) ==
    /\ Return("toXYZ", this, this, toXYZ(this))
    /\ UNCHANGED <<heap, values, args, returned>>

CallToRGB(this) ==
    /\ Return("toRGB", this, this, toRGB(this))
    /\ UNCHANGED <<heap, values, args, returned>>

CallToSRGB(this) ==
    /\ Return("toSRGB", this, this, toSRGB(this))
    /\ UNCHANGED <<heap, values, args, returned>>

\* The caller assigns arr[i] = v in an array it got from toArray().
WriteVals == {7000000}
WriteReturned(r, i, v) ==
    /\ r \in returned
    /\ heap[r][i + 1] # v
    /\ heap' = [heap EXCEPT ![r][i + 1] = v]
    /\ UNCHANGED <<values, args, returned, ret>>

(***************************************************************************)
(* Spec: the first call of a numeric method after construction, for every  *)
(* pair of colours X, Y over the sets below.  X is the receiver, Y (or X   *)
(* itself) the argument.  (Sequences of calls are SpecHeap's.)             *)
(***************************************************************************)

\* l of X: 0, 0.079996 (the cube of its fy is the threshold 0.008856), 0.5, 1
LVals == {0, 79996, 500000, 1000000}
\* l of Y: 0, 0.5
YLVals == {0, 500000}
\* a, b: 0, 0.5, 0.500001, 0.55, 1, 40
ABVals == {0, 500000, 500001, 550000, 1000000, 40000000}

Init ==
    \E xl \in LVals, xa \in ABVals, xb \in ABVals, yl \in YLVals, ya \in ABVals, yb \in ABVals :
        Construct(xl, xa, xb, yl, ya, yb)

Next ==
    /\ ret.op = "none"
    /\ \/ \E color \in Colors : CallDistanceTo("X", color)
       \/ CallDistanceToGray("X")
       \/ CallToXYZ("X")
       \/ CallToRGB("X")
       \/ CallToSRGB("X")

Spec == Init /\ [][Next]_vars

(***************************************************************************)
(* SpecHeap: every method on either colour, toArray() and writes into the  *)
(* arrays it returned, over a small set of components.                     *)
(***************************************************************************)

\* 0.5, 1
HeapVals == {500000, 1000000}

\* X = (l, 0.5, 0.55), Y = (0, a, 1)
InitHeap ==
    \E xl \in HeapVals, ya \in HeapVals : Construct(xl, 500000, 550000, 0, ya, 1000000)

NextHeap ==
    \/ \E this \in Colors, color \in Colors : CallDistanceTo(this, color)
    \/ \E this \in Colors : CallDistanceToGray(this)
    \/ \E this \in Colors : CallToArray(this)
    \/ \E this \in Colors : CallToXYZ(this)
    \/ \E this \in Colors : CallToRGB(this)
    \/ \E this \in Colors : CallToSRGB(this)
    \/ \E r \in returned, i \in 0..2, v \in WriteVals : WriteReturned(r, i, v)

SpecHeap == InitHeap /\ [][NextHeap]_vars

(***************************************************************************)
(* Claims about distanceTo and distanceToGray, checked under Spec.         *)
(***************************************************************************)

\* The last call was op.
Returned(op) == ret.op = op
\* Both chromas were computed without overflow (loc: the locals of the call).
FiniteChromas(loc) == IsFinite(loc.c1) /\ IsFinite(loc.c2)
\* JavaScript's x != y on numbers.
Differ(x, y) == IsNaN(x) \/ IsNaN(y) \/ x # y
\* JavaScript's x <= y on numbers.
Le(x, y) == ~IsNaN(x) /\ ~IsNaN(y) /\ x <= y

\* C1 as stated: for every colour X, X.distanceTo(X) returns exactly 0.
C1_Original == (Returned("distanceTo") /\ ret.arg = ret.this) => ret.val = 0

\* C1, amended: X.distanceTo(X) returns exactly 0 for every colour X whose chroma
\* sqrt(a*a + b*b) is computed without overflow (a*a + b*b is finite).
C1_SelfDistanceZero ==
    (Returned("distanceTo") /\ ret.arg = ret.this) =>
        (FiniteChromas(distanceToLocals(ret.this, ret.arg)) => ret.val = 0)

\* X.distanceTo(X) has returned 0 for a colour with three different non-zero components.
C1_Witness ==
    /\ Returned("distanceTo") /\ ret.arg = ret.this /\ ret.val = 0
    /\ args[ret.this] = <<79996, 550000, 1000000>>

\* C2 as stated: for every pair of colours with finite components the distance is
\* a defined number >= 0.
C2_Original == Returned("distanceTo") => (~IsNaN(ret.val) /\ ret.val >= 0)

\* C2, amended: for every pair of colours whose chromas are computed without
\* overflow, the distance is a defined number >= 0, the divisors sc and sh are at
\* least 1 (never zero), and no square root is taken of a negative value (it
\* would make the result NaN), also when the hue radicand is rounded below zero.
C2_DefinedNonNegative ==
    Returned("distanceTo") =>
        LET loc == distanceToLocals(ret.this, ret.arg)
        IN  FiniteChromas(loc) =>
                /\ ~IsNaN(ret.val) /\ ret.val >= 0
                /\ loc.c1 >= 0 /\ loc.sc >= Scale /\ loc.sh >= Scale
                /\ ~IsNaN(clampSqrt(loc.deltaH0)) /\ ~IsNaN(loc.i)

\* A distance was returned for a pair whose hue radicand was rounded below zero.
C2_Witness ==
    /\ Returned("distanceTo") /\ ret.val > 0 /\ ~IsNaN(ret.val)
    /\ LET loc == distanceToLocals(ret.this, ret.arg)
       IN  FiniteChromas(loc) /\ loc.deltaH0 < 0

\* C6 as stated: whenever the chromas of X and Y differ, X.distanceTo(Y) differs
\* from Y.distanceTo(X).
C6_Original ==
    Returned("distanceTo") =>
        LET loc == distanceToLocals(ret.this, ret.arg)
        IN  Differ(loc.c1, loc.c2) => Differ(ret.val, distanceTo(ret.arg, ret.this))

\* C6, amended: distanceTo is not symmetric in general: the scale factors come
\* from the receiver's chroma, so when the receiver's chroma is the larger one
\* (both finite) X.distanceTo(Y) <= Y.distanceTo(X), strictly for some pairs;
\* for other pairs of differing chroma round-off makes the two distances equal.
C6_LargerChromaSmallerDistance ==
    Returned("distanceTo") =>
        LET loc == distanceToLocals(ret.this, ret.arg)
        IN  (FiniteChromas(loc) /\ loc.c1 >= loc.c2) =>
                Le(ret.val, distanceTo(ret.arg, ret.this))

\* X.distanceTo(Y) came out strictly below Y.distanceTo(X).
C6_Witness ==
    /\ Returned("distanceTo") /\ ~IsNaN(ret.val)
    /\ LET loc == distanceToLocals(ret.this, ret.arg)
       IN  FiniteChromas(loc) /\ loc.c1 > loc.c2
    /\ ret.val < distanceTo(ret.arg, ret.this)

\* C8: distanceToGray() returns sqrt(a*a + b*b), whatever l is: 0 for a = b = 0,
\* 1 for a = 1, b = 0, and the same for two colours that differ in l only.
C8_GrayIsChroma ==
    Returned("distanceToGray") =>
        LET ca == args[ret.this][2]
            cb == args[ret.this][3]
        IN  /\ ret.val = Sqrt(Add(Mul(ca, ca), Mul(cb, cb)))
            /\ (ca = 0 /\ cb = 0) => ret.val = 0
            /\ (ca = Scale /\ cb = 0) => ret.val = Scale
            /\ \A c \in Colors :
                   (args[c][2] = ca /\ args[c][3] = cb) => distanceToGray(c) = ret.val

\* distanceToGray() returned 1 for a = 1, b = 0, and the other colour has the same
\* a and b and another l.
C8_Witness ==
    /\ Returned("distanceToGray") /\ ret.val = Scale
    /\ args["X"][2] = Scale /\ args["X"][3] = 0
    /\ args["Y"][2] = Scale /\ args["Y"][3] = 0 /\ args["Y"][1] # args["X"][1]

\* C9 as stated: the distance is 0 if and only if the two colours are identical
\* in all three components.
C9_Original ==
    Returned("distanceTo") => (ret.val = 0 <=> args[ret.this] = args[ret.arg])

\* C9, amended: the distance is 0 when the two colours are identical (and their
\* chroma does not overflow); a distance of 0 only shows that every squared
\* term was rounded to zero, that is that no component differs by more than a
\* round-off amount (0.005), not that the colours are identical.
C9_ZeroDistance ==
    Returned("distanceTo") =>
        /\ args[ret.this] = args[ret.arg] =>
               (FiniteChromas(distanceToLocals(ret.this, ret.arg)) => ret.val = 0)
        /\ ret.val = 0 =>
               \A k \in 1..3 : Abs(args[ret.this][k] - args[ret.arg][k]) <= 5000

\* X.distanceTo(Y) returned 0 for two distinct objects with the same components.
C9_Witness ==
    /\ Returned("distanceTo") /\ ret.this # ret.arg /\ ret.val = 0
    /\ args["X"] = args["Y"] /\ args["X"][2] = 550000

\* The round-off of the hue radicand, in units: half a unit for each of the three
\* rounded squares, and deltaC's own rounding (one unit) times 2 |deltaC|.
RoundOff(deltaC) == 2 + 2 * (Abs(deltaC) \div Scale + 1)

Within(x, y, tol) == IsFinite(x) /\ IsFinite(y) /\ Abs(x - y) <= tol

\* The ratio C4 states for f, times the white-point component.
C4_Expected(f, white) ==
    LET cube == Mul(Mul(f, f), f)
        sixteen116 == Div(16 * Scale, 116 * Scale)
    IN  IF ~IsNaN(cube) /\ cube > Threshold THEN Mul(cube, white)
        ELSE Mul(Div(Sub(f, sixteen116), Slope), white)

\* C4: toXYZ computes fy = (l*100 + 16)/116, fx = a/5 + fy, fz = fy - b/2, maps
\* each f to its cube when the cube is strictly above 0.008856451 and to
\* (f - 16/116)/7.787037 otherwise, and returns the three results times D65.
C4_PiecewiseXYZ ==
    Returned("toXYZ") =>
        LET cl == args[ret.this][1]
            ca == args[ret.this][2]
            cb == args[ret.this][3]
            cfy == Div(Add(Mul(cl, 100 * Scale), 16 * Scale), 116 * Scale)
            cfx == Add(Div(ca, 5 * Scale), cfy)
            cfz == Sub(cfy, Div(cb, 2 * Scale))
        IN  ret.val = [x |-> C4_Expected(cfx, D65x),
                       y |-> C4_Expected(cfy, D65y),
                       z |-> C4_Expected(cfz, D65z)]

\* toXYZ returned for (0.079996, 0.5, 0.5): the cube of fy equals the threshold
\* (linear form), the cube of fx is above it, and fz is negative.
C4_Witness ==
    /\ Returned("toXYZ") /\ args[ret.this] = <<79996, 500000, 500000>>
    /\ LET t == toXYZLocals(ret.this)
       IN  /\ Mul(Mul(t.fy, t.fy), t.fy) = Threshold
           /\ Mul(Mul(t.fx, t.fx), t.fx) > Threshold
           /\ t.fz < 0
           /\ ret.val.y = Mul(Div(Sub(t.fy, 137931), Slope), D65y)

\* The ratios x/D65.x, y/D65.y, z/D65.z of a returned XYZColor.
Ratios(xyz) == <<Div(xyz.x, D65x), Div(xyz.y, D65y), Div(xyz.z, D65z)>>

\* C5 as stated: for l = 0.5, a = b = 0.55 the three ratios of toXYZ() to the D65
\* white point are approximately equal to one another (within 0.05).
C5_Original ==
    (Returned("toXYZ") /\ args[ret.this] = <<500000, 550000, 550000>>) =>
        LET r == Ratios(ret.val)
        IN  Within(r[1], r[2], 50000) /\ Within(r[3], r[2], 50000)

\* C5, amended: the neutral mid-gray is l = 0.5, a = b = 0: there the three
\* ratios of toXYZ() to the D65 white point are equal (up to the rounding of
\* the multiplication and division by the white point) to the cube 0.184187 of
\* fy = (0.5*100 + 16)/116.  For l = 0.5, a = b = 0.55 they are not: the x
\* ratio is more than 0.1 above the y ratio, and the z ratio more than 0.1 below.
C5_NeutralGray ==
    Returned("toXYZ") =>
        LET r == Ratios(ret.val)
        IN  /\ args[ret.this] = <<500000, 0, 0>> =>
                   \A k \in 1..3 : Within(r[k], 184187, 2)
            /\ args[ret.this] = <<500000, 550000, 550000>> =>
                   r[1] - r[2] > 100000 /\ r[2] - r[3] > 100000

\* toXYZ returned for l = 0.5, a = b = 0.
C5_Witness == Returned("toXYZ") /\ args[ret.this] = <<500000, 0, 0>> /\ ret.val.y = 184187

\* Cube root by bisection: Cube(lo) <= t < Cube(hi).
Cube(r) == Mul(Mul(r, r), r)
RECURSIVE CbrtSearch(_, _, _)
CbrtSearch(lo, hi, t) ==
    IF hi - lo <= 1 THEN (IF t - Cube(lo) > Cube(hi) - t THEN hi ELSE lo)
    ELSE LET mid == (lo + hi) \div 2
         IN  IF Cube(mid) <= t THEN CbrtSearch(mid, hi, t) ELSE CbrtSearch(lo, mid, t)

\* Math.cbrt(t) for finite t >= 0
Cbrt(t) == CbrtSearch(0, 11 * Scale, t)

\* The forward transform's f: the cube root above the threshold, else
\* 7.787037 * t + 16/116.
Forward(t) ==
    IF Gt(t, Threshold) THEN (IF IsFinite(t) THEN Cbrt(t) ELSE t)
    ELSE Add(Mul(Slope, t), Div(16 * Scale, 116 * Scale))

\* The forward XYZ -> LAB transform against D65 in this module's scale:
\* l = (116 fy - 16)/100, a = 5 (fx - fy), b = 2 (fy - fz).
XYZtoLAB(xyz) ==
    LET gx == Forward(Div(xyz.x, D65x))
        gy == Forward(Div(xyz.y, D65y))
        gz == Forward(Div(xyz.z, D65z))
    IN  <<Div(Sub(Mul(116 * Scale, gy), 16 * Scale), 100 * Scale),
          Mul(5 * Scale, Sub(gx, gy)),
          Mul(2 * Scale, Sub(gy, gz))>>

\* toXYZ() followed by the forward transform recovers (l, a, b) within 1e-4
\* (100 units).
RoundTrip ==
    LET back == XYZtoLAB(ret.val)
    IN  \A k \in 1..3 : Within(back[k], args[ret.this][k], 100)

C3_Immutable ==
    \A c \in Colors :
        /\ <<l(c), a(c), b(c)>> = args[c]
        /\ values[c] \notin returned
        /\ LET t == toArray(c)
           IN  t.ref \notin DOMAIN heap /\ t.heap[t.ref] = args[c]

\* Two arrays were obtained from X, every element of both was overwritten, and
\* methods were called since.
C3_Witness ==
    /\ Cardinality(returned) = MaxArrays
    /\ \A r \in returned : heap[r] = <<7000000, 7000000, 7000000>>
    /\ Returned("distanceTo") /\ ret.this = "Y" /\ ret.arg = "X"

====
